---- MODULE Spec2Model ----
(***************************************************************************)
(* A model of the game client of src/game.js (class GameClient): the local *)
(* mirror of the server's players and avatars, the camera offset derived   *)
(* from the local player, and the callbacks that change them.  Every       *)
(* callback runs to completion, so each one is one action.                 *)
(***************************************************************************)
EXTENDS Integers, Sequences, FiniteSets, TLC

VARIABLES
    myPlayerId,     \* this.myPlayerId: Null or a player id
    players,        \* this.players: player id -> player object
    avatars,        \* this.avatars: avatar name -> avatar definition
    avatarImages,   \* this.avatarImages: avatar name -> direction -> index -> image
    loading,        \* the Image objects whose onload has not run yet
    canvas,         \* this.canvas.width / this.canvas.height
    cameraX,        \* this.cameraX
    cameraY,        \* this.cameraY
    event,          \* the callback that ran last
    message,        \* the message the last onmessage callback handled
    before,         \* the ids of this.players when the last callback began
    renders,        \* the calls of draw() the last callback made
    uiUpdates,      \* the calls of updateUI() the last callback made
    started,        \* how many Image objects were created for (avatar, direction, index)
    image,          \* the Image whose onload ran last
    painted,        \* the avatars the last draw() put on the canvas
    socket,         \* this.socket: its readyState and whether its close event has fired
    statusLog,      \* the statuses passed to updateConnectionStatus, in order
    keysPressed,    \* this.keysPressed: the key codes that are true
    sent            \* the messages passed to socket.send, in order

vars == <<myPlayerId, players, avatars, avatarImages, loading, canvas,
          cameraX, cameraY, event, message, before, renders, uiUpdates,
          started, image, painted, socket, statusLog, keysPressed, sent>>

store == <<myPlayerId, players, avatars, avatarImages, loading, cameraX, cameraY,
           started>>

----------------------------------------------------------------------------
(* Program constants *)

worldWidth == 2048
worldHeight == 2048
StatusBarHeight == 40
avatarSize == 48

Null == "null"

----------------------------------------------------------------------------
(* JavaScript numbers: the camera is a number or NaN (a coordinate read    *)
(* from a player object that has no such field is undefined, and           *)
(* undefined - n is NaN).                                                  *)

Num(v) == [nan |-> FALSE, v |-> v]
NaN == [nan |-> TRUE, v |-> 0]

Max(a, b) == IF a >= b THEN a ELSE b
Min(a, b) == IF a <= b THEN a ELSE b

\* obj[f] !== undefined
Has(obj, f) == f \in DOMAIN obj

----------------------------------------------------------------------------
(* The inputs: what the server and the browser hand to the callbacks.      *)

Ids == {"p1", "p2"}
AvatarNames == {"a1"}
LoadedDirections == <<"north", "south", "east">>
PlayerFields == {"id", "x", "y", "facing", "animationFrame", "avatar", "username"}

\* window.innerWidth, window.innerHeight
WindowSizes == {<<800, 640>>, <<1200, 1040>>, <<2448, 2200>>}

Player(id, x, y, facing, avatar) ==
    [id |-> id, x |-> x, y |-> y, facing |-> facing, animationFrame |-> 0,
     avatar |-> avatar, username |-> id]

\* complete player objects, as join_game and player_joined carry them
FullPlayers(id) ==
    { Player(id, 100, 100, "north", "a1"),
      Player(id, 1900, 1900, "west", "a2") }

\* entries of a players_moved message: complete objects and partial ones
MovedEntries(id) ==
    FullPlayers(id) \cup { [x |-> 5], [x |-> 1024, y |-> 1024] }

\* the frames of one direction of an avatar definition
MaxFrames == 1

Avatar(name, tag) ==
    [name |-> name,
     frames |-> [north |-> [i \in 1..MaxFrames |-> tag \o "_n" \o ToString(i - 1)],
                 south |-> [i \in 1..MaxFrames |-> tag \o "_s" \o ToString(i - 1)],
                 east  |-> [i \in 1..MaxFrames |-> tag \o "_e" \o ToString(i - 1)]]]

\* the avatar definitions of a join_game response
JoinAvatarDefs(name) ==
    {Avatar(name, name)}

\* the avatar definitions of player_joined: a second, different one is sent
\* under the name a1
AvatarDefs(name) ==
    IF name = "a1" THEN {Avatar("a1", "a1"), Avatar("a1", "a1v2")}
    ELSE {Avatar(name, name)}

\* the maps from some of the keys of values to a member of values[key]
MapsOver(values) ==
    UNION { { f \in [S -> UNION {values[k] : k \in S}] :
                \A k \in S : f[k] \in values[k] } : S \in SUBSET DOMAIN values }

JoinSuccessMessages ==
    [action : {"join_game"}, success : {TRUE}, playerId : Ids,
     players : MapsOver([id \in Ids |-> FullPlayers(id)]),
     avatars : MapsOver([n \in AvatarNames |-> JoinAvatarDefs(n)])]

JoinFailureMessages ==
    [action : {"join_game"}, success : {FALSE}, error : {"rejected"}]

PlayerJoinedMessages ==
    UNION { [action : {"player_joined"}, player : FullPlayers(id),
             avatar : AvatarDefs(a)] : id \in Ids, a \in AvatarNames }

PlayersMovedMessages ==
    [action : {"players_moved"}, players : MapsOver([id \in Ids |-> MovedEntries(id)])]

PlayerLeftMessages ==
    [action : {"player_left"}, playerId : Ids]

UnknownMessages ==
    [action : {"ping"}]

NoMessage == [action |-> "none"]

----------------------------------------------------------------------------
(* Plain objects used as maps *)

\* obj[key] = value
Put(obj, key, value) ==
    [k \in DOMAIN obj \cup {key} |-> IF k = key THEN value ELSE obj[k]]

\* obj = {}
DeleteAll(obj, key) ==
    [k \in {} |-> obj[k]]

\* delete obj[key]
Delete(obj, key) ==
    [k \in DOMAIN obj \ {key} |-> obj[k]]

\* this.players = message.players, the whole map replaced
ReplaceAll(target, source) ==
    source

\* a field-by-field merge of each entry into the stored object
MergeFields(target, source) ==
    [k \in DOMAIN target \cup DOMAIN source |->
        IF k \notin DOMAIN source THEN target[k]
        ELSE IF k \notin DOMAIN target THEN source[k]
        ELSE [f \in DOMAIN target[k] \cup DOMAIN source[k] |->
                IF f \in DOMAIN source[k] THEN source[k][f] ELSE target[k][f]]]

\* Object.assign(target, source): every own key of source is set on target
ObjectAssign(target, source) ==
    [k \in DOMAIN target \cup DOMAIN source |->
        IF k \in DOMAIN source THEN source[k] ELSE target[k]]

----------------------------------------------------------------------------
(* updateCamera *)

\* the camera centred on the player, not clamped
Centred(pos, view, world) ==
    pos - view \div 2

\* one axis of updateCamera; the canvas sizes of WindowSizes are even, so
\* view / 2 is the integer view \div 2
CameraAxis(pos, view, world) ==
    Max(0, Min(pos - view \div 2, world - view))

CameraOf(player, field, view, world) ==
    IF Has(player, field) THEN Num(CameraAxis(player[field], view, world))
    ELSE NaN

LocalPlayerPresent(id, ps) ==
    id # Null /\ id \in DOMAIN ps

\* <<cameraX, cameraY>> after updateCamera()
UpdateCamera(id, ps, cv, cx, cy) ==
    IF ~LocalPlayerPresent(id, ps) THEN <<cx, cy>>
    ELSE <<CameraOf(ps[id], "x", cv.width, worldWidth),
           CameraOf(ps[id], "y", cv.height, worldHeight)>>

----------------------------------------------------------------------------
(* loadAvatarImage, loadAvatarImages *)

NoImages == [d \in {LoadedDirections[i] : i \in 1..Len(LoadedDirections)} |-> << >>]

\* the Image objects loadAvatarImage creates for an avatar
LoadsOf(avatar) ==
    UNION { { [key |-> avatar.name, direction |-> d, index |-> i - 1,
               src |-> avatar.frames[d][i]] : i \in 1..Len(avatar.frames[d]) }
            : d \in DOMAIN NoImages }

\* the (avatar, direction, index) of an Image
SlotOf(l) == <<l.key, l.direction, l.index>>

\* the counts after one more Image has been created for every slot of slots
CountLoads(counts, slots) ==
    [t \in DOMAIN counts \cup slots |->
        (IF t \in DOMAIN counts THEN counts[t] ELSE 0) + (IF t \in slots THEN 1 ELSE 0)]

\* the loader's part of the state
Loader == [avatarImages |-> avatarImages, loading |-> loading, started |-> started]

\* loadAvatarImage without the check of this.avatarImages[avatarKey]
LoadAvatarImageAgain(st, avatar) ==
    [avatarImages |-> Put(st.avatarImages, avatar.name, NoImages),
     loading |-> st.loading \cup LoadsOf(avatar),
     started |-> CountLoads(st.started, {SlotOf(l) : l \in LoadsOf(avatar)})]

\* loadAvatarImage(avatar) on st = [avatarImages, loading, started]
LoadAvatarImage(st, avatar) ==
    IF avatar.name \in DOMAIN st.avatarImages THEN st
    ELSE [avatarImages |-> Put(st.avatarImages, avatar.name, NoImages),
          loading |-> st.loading \cup LoadsOf(avatar),
          started |-> CountLoads(st.started, {SlotOf(l) : l \in LoadsOf(avatar)})]

\* loadAvatarImages(): loadAvatarImage for every value of this.avatars
RECURSIVE LoadAvatarImages(_, _, _)
LoadAvatarImages(st, avs, names) ==
    IF names = {} THEN st
    ELSE LET n == CHOOSE k \in names : TRUE
         IN  LoadAvatarImages(LoadAvatarImage(st, avs[n]), avs, names \ {n})

----------------------------------------------------------------------------
(* worldToScreen, isVisible, drawAvatar, draw.  A coordinate is Num(v) or  *)
(* NaN; an Image object is the record of its creation (LoadsOf).           *)

\* player[field] as a number; what is computed from undefined is NaN
Coord(player, field) ==
    IF Has(player, field) THEN Num(player[field]) ELSE NaN

Minus(a, b) == IF a.nan \/ b.nan THEN NaN ELSE Num(a.v - b.v)

\* a >= n and a <= n, false of NaN
AtLeast(a, n) == ~a.nan /\ a.v >= n
AtMost(a, n) == ~a.nan /\ a.v <= n

WorldToScreen(worldX, worldY, cx, cy) ==
    [x |-> Minus(worldX, cx), y |-> Minus(worldY, cy)]

\* isVisible with the comparisons strict
IsVisibleStrictly(worldX, worldY, cx, cy, cv) ==
    LET screen == WorldToScreen(worldX, worldY, cx, cy)
    IN  /\ AtLeast(screen.x, 1 - avatarSize)
        /\ AtMost(screen.x, cv.width + avatarSize - 1)
        /\ AtLeast(screen.y, 1 - avatarSize)
        /\ AtMost(screen.y, cv.height + avatarSize - 1)

IsVisible(worldX, worldY, cx, cy, cv) ==
    LET screen == WorldToScreen(worldX, worldY, cx, cy)
    IN  /\ AtLeast(screen.x, -avatarSize)
        /\ AtMost(screen.x, cv.width + avatarSize)
        /\ AtLeast(screen.y, -avatarSize)
        /\ AtMost(screen.y, cv.height + avatarSize)

\* the avatar check of drawAvatar without its !avatar half
SpritesKnown(player, avs, imgs) ==
    Has(player, "avatar") /\ player.avatar \in DOMAIN imgs

\* avatar && this.avatarImages[player.avatar]
AvatarKnown(player, avs, imgs) ==
    /\ Has(player, "avatar")
    /\ player.avatar \in DOMAIN avs
    /\ player.avatar \in DOMAIN imgs

\* player.facing; a missing field reads as undefined
Facing(player) ==
    IF Has(player, "facing") THEN player.facing ELSE "undefined"

\* player.animationFrame || 0
FrameIndex(player) ==
    IF Has(player, "animationFrame") THEN player.animationFrame ELSE 0

\* the direction whose frames are drawn
FrameDirection(facing) ==
    IF facing = "west" THEN "east" ELSE facing

\* west drawn without the mirroring
NeverFlipped(facing) ==
    FALSE

FlipHorizontal(facing) ==
    facing = "west"

\* the drawImage calls of drawAvatar(player): none when it returns early
DrawAvatar(player, avs, imgs, cx, cy, cv) ==
    IF ~IsVisible(Coord(player, "x"), Coord(player, "y"), cx, cy, cv) THEN {}
    ELSE IF ~AvatarKnown(player, avs, imgs) THEN {}
    ELSE LET direction == FrameDirection(Facing(player))
             sprites   == imgs[player.avatar]
         IN  IF direction \notin DOMAIN sprites THEN {}
             ELSE IF FrameIndex(player) \notin DOMAIN sprites[direction] THEN {}
             ELSE {[img |-> sprites[direction][FrameIndex(player)],
                    flipHorizontal |-> FlipHorizontal(Facing(player))]}

\* draw(): drawAvatar for every value of this.players
Draw(ps, avs, imgs, cx, cy, cv) ==
    UNION { { [player |-> id, img |-> d.img, flipHorizontal |-> d.flipHorizontal] :
                d \in DrawAvatar(ps[id], avs, imgs, cx, cy, cv) } : id \in DOMAIN ps }

NoImage == [key |-> "none"]

----------------------------------------------------------------------------
(* The state after the constructor: init() has sized the canvas, nothing   *)
(* has been received.                                                      *)

CanvasOf(size) == [width |-> size[1], height |-> size[2] - StatusBarHeight]

Init ==
    /\ myPlayerId = Null
    /\ players = << >>
    /\ avatars = << >>
    /\ avatarImages = << >>
    /\ loading = {}
    /\ canvas \in {CanvasOf(size) : size \in WindowSizes}
    /\ cameraX = Num(0)
    /\ cameraY = Num(0)
    /\ event = "init"
    /\ message = NoMessage
    /\ before = {}
    /\ renders = 0
    /\ uiUpdates = 0
    /\ started = << >>
    /\ image = NoImage
    /\ painted = {}
    /\ socket = [readyState |-> "CONNECTING", closed |-> FALSE]
    /\ statusLog = << >>
    /\ keysPressed = {}
    /\ sent = << >>

----------------------------------------------------------------------------
(* handleServerMessage, one operator per case of the switch *)

\* case 'join_game', message.success true
JoinAccepted(m) ==
    LET st == LoadAvatarImages(Loader, m.avatars, DOMAIN m.avatars)
        cam == UpdateCamera(m.playerId, m.players, canvas, cameraX, cameraY)
    IN  /\ myPlayerId' = m.playerId
        /\ players' = m.players
        /\ avatars' = m.avatars
        /\ avatarImages' = st.avatarImages
        /\ loading' = st.loading
        /\ started' = st.started
        /\ cameraX' = cam[1]
        /\ cameraY' = cam[2]
        /\ uiUpdates' = 1
        /\ renders' = 1

\* a rejected join that empties the players and repaints
JoinRejectedClears(m) ==
    /\ players' = << >>
    /\ UNCHANGED <<myPlayerId, avatars, avatarImages, loading, cameraX, cameraY, started>>
    /\ uiUpdates' = 0
    /\ renders' = 1

\* case 'join_game', message.success false: console.error only
JoinRejected(m) ==
    /\ UNCHANGED store
    /\ uiUpdates' = 0
    /\ renders' = 0

\* case 'join_game'
JoinGame(m) ==
    IF m.success THEN JoinAccepted(m) ELSE JoinRejected(m)

\* case 'player_joined'
PlayerJoined(m) ==
    LET st == LoadAvatarImage(Loader, m.avatar)
    IN  /\ players' = Put(players, m.player.id, m.player)
        /\ avatars' = Put(avatars, m.avatar.name, m.avatar)
        /\ avatarImages' = st.avatarImages
        /\ loading' = st.loading
        /\ started' = st.started
        /\ uiUpdates' = 1
        /\ renders' = 1
        /\ UNCHANGED <<myPlayerId, cameraX, cameraY>>

\* players_moved with draw() called for each entry of the message
PlayersMovedDrawsEach(m) ==
    LET ps  == ObjectAssign(players, m.players)
        cam == UpdateCamera(myPlayerId, ps, canvas, cameraX, cameraY)
    IN  /\ players' = ps
        /\ cameraX' = cam[1]
        /\ cameraY' = cam[2]
        /\ uiUpdates' = 1
        /\ renders' = Cardinality(DOMAIN m.players)
        /\ UNCHANGED <<myPlayerId, avatars, avatarImages, loading, started>>

\* case 'players_moved'
PlayersMoved(m) ==
    LET ps  == ObjectAssign(players, m.players)
        cam == UpdateCamera(myPlayerId, ps, canvas, cameraX, cameraY)
    IN  /\ players' = ps
        /\ cameraX' = cam[1]
        /\ cameraY' = cam[2]
        /\ uiUpdates' = 1
        /\ renders' = 1
        /\ UNCHANGED <<myPlayerId, avatars, avatarImages, loading, started>>

\* case 'player_left'
PlayerLeft(m) ==
    /\ players' = Delete(players, m.playerId)
    /\ uiUpdates' = 1
    /\ renders' = 1
    /\ UNCHANGED <<myPlayerId, avatars, avatarImages, loading, cameraX, cameraY, started>>

\* a default case that refreshes the page
IgnoredRepaints(m) ==
    /\ UNCHANGED store
    /\ uiUpdates' = 1
    /\ renders' = 1

\* no case of the switch matches
Ignored(m) ==
    /\ UNCHANGED store
    /\ uiUpdates' = 0
    /\ renders' = 0

HandleServerMessage(m) ==
    CASE m.action = "join_game"     -> JoinGame(m)
      [] m.action = "player_joined" -> PlayerJoined(m)
      [] m.action = "players_moved" -> PlayersMoved(m)
      [] m.action = "player_left"   -> PlayerLeft(m)
      [] OTHER                      -> Ignored(m)

\* what is on the canvas after a callback: every callback that calls draw()
\* calls it last, on the state it leaves
\* (init() sets worldImage to an Image object before the socket exists, so
\* the guard at the top of draw() never returns early)
Repaint ==
    painted' = IF renders' > 0
               THEN Draw(players', avatars', avatarImages', cameraX', cameraY', canvas')
               ELSE painted

\* socket.onmessage; the browser fires it only while the socket is open
OnMessage(m) ==
    /\ socket.readyState = "OPEN"
    /\ HandleServerMessage(m)
    /\ event' = "message"
    /\ message' = m
    /\ before' = DOMAIN players
    /\ image' = NoImage
    /\ UNCHANGED <<canvas, socket, statusLog, keysPressed, sent>>
    /\ Repaint

\* the window's resize listener
OnResize(size) ==
    LET cv  == CanvasOf(size)
        cam == UpdateCamera(myPlayerId, players, cv, cameraX, cameraY)
    IN  /\ canvas' = cv
        /\ cameraX' = cam[1]
        /\ cameraY' = cam[2]
        /\ renders' = 1
        /\ uiUpdates' = 0
        /\ event' = "resize"
        /\ message' = NoMessage
        /\ before' = DOMAIN players
        /\ image' = NoImage
        /\ UNCHANGED <<myPlayerId, players, avatars, avatarImages, loading, started,
                       socket, statusLog, keysPressed, sent>>
        /\ Repaint

\* the image stored as the only one of its avatar
StoreImageAlone(imgs, l) ==
    Put(imgs, l.key, Put(NoImages, l.direction, Put(<< >>, l.index, l)))

\* this.avatarImages[avatarKey][direction][index] = img
StoreImage(imgs, l) ==
    Put(imgs, l.key,
        Put(imgs[l.key], l.direction, Put(imgs[l.key][l.direction], l.index, l)))

\* img.onload of one of the Images being loaded
ImageOnload(l) ==
    /\ l \in loading
    /\ avatarImages' = StoreImage(avatarImages, l)
    /\ loading' = loading \ {l}
    /\ renders' = 1
    /\ uiUpdates' = 0
    /\ event' = "onload"
    /\ message' = NoMessage
    /\ before' = DOMAIN players
    /\ image' = l
    /\ UNCHANGED <<myPlayerId, players, avatars, cameraX, cameraY, canvas, started,
                   socket, statusLog, keysPressed, sent>>
    /\ Repaint

----------------------------------------------------------------------------
(* connectToServer: the socket's onopen, onerror and onclose.  The socket  *)
(* is created once, in the constructor; nothing creates another.           *)

\* a callback that changes nothing of the game
GameUntouched ==
    /\ UNCHANGED <<store, canvas, painted>>
    /\ message' = NoMessage
    /\ before' = DOMAIN players
    /\ image' = NoImage
    /\ renders' = 0
    /\ uiUpdates' = 0

\* joinGame()
JoinMessage == [action |-> "join_game", username |-> "May"]

\* socket.onopen
SocketOpen ==
    /\ socket.readyState = "CONNECTING"
    /\ socket' = [socket EXCEPT !.readyState = "OPEN"]
    /\ statusLog' = Append(statusLog, "connected")
    /\ sent' = Append(sent, JoinMessage)
    /\ event' = "open"
    /\ GameUntouched
    /\ UNCHANGED keysPressed

\* an error that leaves the socket as it was
SocketErrorOnly ==
    /\ socket.readyState \in {"CONNECTING", "OPEN"}
    /\ statusLog' = Append(statusLog, "disconnected")
    /\ event' = "error"
    /\ GameUntouched
    /\ UNCHANGED <<socket, keysPressed, sent>>

\* socket.onerror: the connection has failed, its close event follows
SocketError ==
    /\ socket.readyState \in {"CONNECTING", "OPEN"}
    /\ socket' = [readyState |-> "CLOSED", closed |-> FALSE]
    /\ statusLog' = Append(statusLog, "disconnected")
    /\ event' = "error"
    /\ GameUntouched
    /\ UNCHANGED <<keysPressed, sent>>

\* socket.onclose: after an error, or when the server closes an open socket
SocketClose ==
    /\ ~socket.closed
    /\ socket.readyState \in {"OPEN", "CLOSED"}
    /\ socket' = [readyState |-> "CLOSED", closed |-> TRUE]
    /\ statusLog' = Append(statusLog, "disconnected")
    /\ event' = "close"
    /\ GameUntouched
    /\ UNCHANGED <<keysPressed, sent>>

----------------------------------------------------------------------------
(* setupKeyboardControls, handleMovement *)

KeyCodes == {"ArrowUp", "ArrowDown", "ArrowLeft", "ArrowRight", "KeyA"}

\* the messages socket.send may be given before the model stops the keyboard
MaxSent == 3

\* a precedence that puts right before left
DirectionRightFirst(keys) ==
    IF "ArrowUp" \in keys THEN "up"
    ELSE IF "ArrowDown" \in keys THEN "down"
    ELSE IF "ArrowRight" \in keys THEN "right"
    ELSE IF "ArrowLeft" \in keys THEN "left"
    ELSE Null

\* the if / else if chain of handleMovement
Direction(keys) ==
    IF "ArrowUp" \in keys THEN "up"
    ELSE IF "ArrowDown" \in keys THEN "down"
    ELSE IF "ArrowLeft" \in keys THEN "left"
    ELSE IF "ArrowRight" \in keys THEN "right"
    ELSE Null

\* handleMovement without the check of the socket
MovementUnguarded(readyState, keys) ==
    IF Direction(keys) # Null
    THEN <<[action |-> "move", direction |-> Direction(keys)]>>
    ELSE <<[action |-> "stop"]>>

\* the messages handleMovement() sends
Movement(readyState, keys) ==
    IF readyState # "OPEN" THEN << >>
    ELSE IF Direction(keys) # Null
    THEN <<[action |-> "move", direction |-> Direction(keys)]>>
    ELSE <<[action |-> "stop"]>>

\* a key listener: keysPressed[event.code] is set, then handleMovement()
OnKey(kind, keys) ==
    /\ Len(sent) + Len(Movement(socket.readyState, keys)) <= MaxSent
    /\ keysPressed' = keys
    /\ sent' = sent \o Movement(socket.readyState, keys)
    /\ event' = kind
    /\ GameUntouched
    /\ UNCHANGED <<socket, statusLog>>

\* the keydown listener
KeyDown == \E code \in KeyCodes : OnKey("keydown", keysPressed \cup {code})

\* the keyup listener
KeyUp == \E code \in KeyCodes : OnKey("keyup", keysPressed \ {code})

----------------------------------------------------------------------------
(* The server's messages and the browser's resizes, in any order *)

ReceiveJoinSuccess == \E m \in JoinSuccessMessages : OnMessage(m)
ReceiveJoinFailure == \E m \in JoinFailureMessages : OnMessage(m)
ReceivePlayerJoined == \E m \in PlayerJoinedMessages : OnMessage(m)
ReceivePlayersMoved == \E m \in PlayersMovedMessages : OnMessage(m)
ReceivePlayerLeft == \E m \in PlayerLeftMessages : OnMessage(m)
ReceiveUnknown == \E m \in UnknownMessages : OnMessage(m)
Resize == \E size \in WindowSizes : OnResize(size)

Next ==
    \/ SocketOpen
    \/ ReceiveJoinSuccess
    \/ ReceiveJoinFailure
    \/ ReceivePlayerJoined
    \/ ReceivePlayersMoved
    \/ ReceivePlayerLeft
    \/ ReceiveUnknown
    \/ Resize

Spec == Init /\ [][Next]_vars

(* The same client with a server that sends complete player objects only   *)
(* and whose join_game response lists the joining player.                  *)

JoinSuccessWithLocalPlayer ==
    {m \in JoinSuccessMessages : m.playerId \in DOMAIN m.players}

CompleteMovedMessages ==
    [action : {"players_moved"}, players : MapsOver([id \in Ids |-> FullPlayers(id)])]

ReceiveJoinWithLocalPlayer == \E m \in JoinSuccessWithLocalPlayer : OnMessage(m)
ReceiveCompleteMoves == \E m \in CompleteMovedMessages : OnMessage(m)

NextComplete ==
    \/ SocketOpen
    \/ ReceiveJoinWithLocalPlayer
    \/ ReceiveJoinFailure
    \/ ReceivePlayerJoined
    \/ ReceiveCompleteMoves
    \/ ReceivePlayerLeft
    \/ ReceiveUnknown
    \/ Resize

SpecComplete == Init /\ [][NextComplete]_vars

(* The session: the socket's life and the keyboard, with the messages that *)
(* leave the store as it is.                                               *)

NextSession ==
    \/ SocketOpen
    \/ SocketError
    \/ SocketClose
    \/ KeyDown
    \/ KeyUp
    \/ ReceiveJoinFailure
    \/ ReceiveUnknown

SpecSession == Init /\ [][NextSession]_vars

(* The sprites: an 800x600 canvas, the local player p1 in the middle of    *)
(* the world (camera (624,724)), p2 at and around the edges of the canvas, *)
(* and the images of the avatars loading in any order.                     *)

Sprite(id, x, y, facing, frame, avatar) ==
    [id |-> id, x |-> x, y |-> y, facing |-> facing, animationFrame |-> frame,
     avatar |-> avatar, username |-> id]

LocalSprite == Sprite("p1", 1024, 1024, "east", 0, "a1")

OtherSprites ==
    { Sprite("p2", 576, 1024, "west", 0, "a1"),
      Sprite("p2", 575, 1024, "west", 0, "a1"),
      Sprite("p2", 1472, 1024, "east", 0, "a1"),
      Sprite("p2", 1473, 1024, "east", 0, "a1"),
      Sprite("p2", 1024, 676, "north", 0, "a1"),
      Sprite("p2", 1024, 675, "north", 0, "a1"),
      Sprite("p2", 1024, 1372, "south", 0, "a1"),
      Sprite("p2", 1024, 1373, "south", 0, "a1"),
      Sprite("p2", 624, 724, "east", 0, "a1"),
      Sprite("p2", 1424, 1324, "west", 0, "a1"),
      Sprite("p2", 1024, 1024, "east", 1, "a1"),
      Sprite("p2", 1024, 1024, "north", 0, "a2") }

SpriteJoinMessages ==
    [action : {"join_game"}, success : {TRUE}, playerId : {"p1"},
     players : {[p1 |-> LocalSprite]} \cup {[p1 |-> LocalSprite, p2 |-> o] : o \in OtherSprites},
     avatars : MapsOver([n \in AvatarNames |-> JoinAvatarDefs(n)])]

SpriteJoinedMessages ==
    [action : {"player_joined"},
     player : {Sprite("p2", 576, 1024, "west", 0, "a1")},
     avatar : AvatarDefs("a1")]

SpriteMovedMessages ==
    [action : {"players_moved"},
     players : {[p2 |-> o] : o \in OtherSprites \cup {[x |-> 1024, y |-> 1024]}}]

InitSprites == Init /\ canvas = CanvasOf(<<800, 640>>)

ReceiveSpriteJoin == \E m \in SpriteJoinMessages : OnMessage(m)
ReceiveSpriteJoined == \E m \in SpriteJoinedMessages : OnMessage(m)
ReceiveSpriteMoved == \E m \in SpriteMovedMessages : OnMessage(m)
ImageLoaded == \E l \in loading : ImageOnload(l)

NextSprites ==
    \/ SocketOpen
    \/ ReceiveSpriteJoin
    \/ ReceiveSpriteJoined
    \/ ReceiveSpriteMoved
    \/ ImageLoaded

SpecSprites == InitSprites /\ [][NextSprites]_vars

----------------------------------------------------------------------------
(* Properties.  A step whose event' is "message" is the handling of        *)
(* message' in full; players, cameraX, ... are the values before it and    *)
(* the primed ones the values after it.                                    *)

Handled(action) == event = "message" /\ message.action = action
Handles(action) == event' = "message" /\ message'.action = action

\* the value between lo and hi nearest to v, for lo <= hi
Clamp(v, lo, hi) == IF v < lo THEN lo ELSE IF v > hi THEN hi ELSE v

\* clamp(position - viewportSize/2, 0, worldSize - viewportSize) on one axis
ClampedCentre(player, field, view, world) ==
    IF Has(player, field) THEN Num(Clamp(player[field] - view \div 2, 0, world - view))
    ELSE NaN

InRange(c, lo, hi) == ~c.nan /\ lo <= c.v /\ c.v <= hi

\* C1 (as claimed): when players_moved carries an entry for a player already
\* stored, every field of that player the entry does not mention keeps the
\* value it had before the merge.
C1_UnmentionedFieldsKept ==
    [][Handles("players_moved") =>
        \A id \in DOMAIN message'.players \cap DOMAIN players :
            \A f \in DOMAIN players[id] \ DOMAIN message'.players[id] :
                Has(players'[id], f) /\ players'[id][f] = players[id][f]]_vars

\* C1 (amended): after players_moved, every player the message has an entry
\* for is stored as exactly that entry: the entry replaces the stored object,
\* and a field it does not mention is no longer there.
C1_EntryReplacesPlayer ==
    [][Handles("players_moved") =>
        \A id \in DOMAIN message'.players :
            /\ id \in DOMAIN players'
            /\ DOMAIN players'[id] = DOMAIN message'.players[id]
            /\ \A f \in DOMAIN players'[id] : players'[id][f] = message'.players[id][f]]_vars

\* C1 witness: a players_moved message with a partial entry for a player that
\* was stored before has been handled, and the store holds that entry.
C1_Witness ==
    /\ Handled("players_moved")
    /\ \E id \in DOMAIN message.players \cap before :
          /\ DOMAIN message.players[id] = {"x"}
          /\ DOMAIN players[id] = {"x"}
          /\ players[id].x = 5

\* C2 (as claimed): on each axis where the world is at least as large as the
\* canvas, the camera offset is a number in [0, worldSize - canvasSize].
C2_CameraWithinWorld ==
    /\ worldWidth >= canvas.width => InRange(cameraX, 0, worldWidth - canvas.width)
    /\ worldHeight >= canvas.height => InRange(cameraY, 0, worldHeight - canvas.height)

\* C3: after a successful join_game, a players_moved or a resize, with the
\* local player stored, the camera offset on each axis where the world is at
\* least as large as the canvas is clamp(position - canvasSize/2, 0,
\* worldSize - canvasSize), each axis by itself.
C3_CameraIsClampedCentre ==
    ( /\ \/ event = "resize"
         \/ Handled("players_moved")
         \/ Handled("join_game") /\ message.success
      /\ LocalPlayerPresent(myPlayerId, players) )
    => /\ worldWidth >= canvas.width =>
            cameraX = ClampedCentre(players[myPlayerId], "x", canvas.width, worldWidth)
       /\ worldHeight >= canvas.height =>
            cameraY = ClampedCentre(players[myPlayerId], "y", canvas.height, worldHeight)

\* C3 witness: a join on an 800x600 canvas with the local player at
\* (1900,1900) has put the camera at (2048-800, 2048-600).
C3_Witness ==
    /\ Handled("join_game")
    /\ message.success
    /\ canvas = [width |-> 800, height |-> 600]
    /\ LocalPlayerPresent(myPlayerId, players)
    /\ players[myPlayerId] = Player(myPlayerId, 1900, 1900, "west", "a2")
    /\ cameraX = Num(1248)
    /\ cameraY = Num(1448)

\* C4 (as claimed): after a join_game, player_joined or players_moved message
\* has been handled, if the local player is stored then the camera offset is
\* the clamp formula of that player's current position (on each axis where the
\* world is at least as large as the canvas, so that the clamp is defined).
C4_CameraFollowsLocalPlayer ==
    ( /\ \/ Handled("join_game")
         \/ Handled("player_joined")
         \/ Handled("players_moved")
      /\ LocalPlayerPresent(myPlayerId, players) )
    => /\ worldWidth >= canvas.width =>
            cameraX = ClampedCentre(players[myPlayerId], "x", canvas.width, worldWidth)
       /\ worldHeight >= canvas.height =>
            cameraY = ClampedCentre(players[myPlayerId], "y", canvas.height, worldHeight)

\* C5 (as claimed): until the first successful join_game response, which is
\* what sets the local player id, the players and the avatars are empty.
C5_EmptyBeforeJoin ==
    myPlayerId = Null => DOMAIN players = {} /\ DOMAIN avatars = {}

\* C6: handling a join_game response whose success flag is false leaves the
\* local player id, the players, the avatars, the loaded images and the
\* camera as they were, and calls draw() not once.
C6_RejectedJoinMutatesNothing ==
    [][(Handles("join_game") /\ ~message'.success) =>
        /\ UNCHANGED <<myPlayerId, players, avatars, avatarImages, loading,
                       cameraX, cameraY>>
        /\ renders' = 0]_vars

\* C6 witness: a rejected join_game has been handled while the store held a
\* local player.
C6_Witness ==
    /\ Handled("join_game")
    /\ ~message.success
    /\ LocalPlayerPresent(myPlayerId, players)
    /\ DOMAIN avatars # {}

\* C7: handling a message of an unknown action leaves the local player id,
\* the players, the avatars and the camera as they were and calls neither
\* draw() nor updateUI().
C7_UnknownActionIgnored ==
    [][Handles("ping") =>
        /\ UNCHANGED <<myPlayerId, players, avatars, cameraX, cameraY>>
        /\ renders' = 0
        /\ uiUpdates' = 0]_vars

\* C7 witness: a ping has been handled while the store held a local player.
C7_Witness ==
    /\ Handled("ping")
    /\ LocalPlayerPresent(myPlayerId, players)
    /\ renders = 0

\* C8 (as claimed): player_joined with an avatar whose name is already
\* registered leaves the stored definition of that avatar and its loaded
\* images unchanged.
C8_RepeatedRegistrationIdempotent ==
    [][(Handles("player_joined") /\ message'.avatar.name \in DOMAIN avatars) =>
        /\ avatars'[message'.avatar.name] = avatars[message'.avatar.name]
        /\ \A n \in DOMAIN avatarImages : avatarImages'[n] = avatarImages[n]]_vars

\* C9: players_moved removes no player, and every player whose id is not a
\* key of the message's players keeps its whole object.
C9_OthersUntouchedByMove ==
    [][Handles("players_moved") =>
        /\ DOMAIN players \subseteq DOMAIN players'
        /\ \A id \in DOMAIN players \ DOMAIN message'.players :
              players'[id] = players[id]]_vars

\* C9 witness: a players_moved with an entry for one player has been handled
\* while another player, not in the message, was stored.
C9_Witness ==
    /\ Handled("players_moved")
    /\ DOMAIN message.players # {}
    /\ \E id \in before \ DOMAIN message.players : id \in DOMAIN players

\* C10: player_left removes the player of the given id and nothing else: the
\* other players keep their objects, the avatars and the local player id are
\* unchanged, and with no player of that id the players are unchanged.
C10_LeftRemovesOnlyThatPlayer ==
    [][Handles("player_left") =>
        /\ DOMAIN players' = DOMAIN players \ {message'.playerId}
        /\ \A id \in DOMAIN players' : players'[id] = players[id]
        /\ UNCHANGED <<avatars, myPlayerId>>]_vars

\* C10 witness: a player_left for a stored player has been handled and the
\* other player is still stored.
C10_Witness ==
    /\ Handled("player_left")
    /\ message.playerId \in before
    /\ message.playerId \notin DOMAIN players
    /\ DOMAIN players # {}

----------------------------------------------------------------------------
(* Properties of the rendering, the image loads, the socket and the keys   *)

\* C11: a successful join_game, a player_joined, a players_moved and a
\* player_left each make the handler call draw() once and updateUI() once,
\* however many players or avatars the message carries.
C11_OneRenderPerMessage ==
    ( \/ Handled("join_game") /\ message.success
      \/ Handled("player_joined")
      \/ Handled("players_moved")
      \/ Handled("player_left") )
    => renders = 1 /\ uiUpdates = 1

\* C11 witness: a players_moved that carries two players has been handled
\* with one draw() and one updateUI().
C11_Witness ==
    /\ Handled("players_moved")
    /\ Cardinality(DOMAIN message.players) = 2
    /\ renders = 1
    /\ uiUpdates = 1

\* C12: no (avatar name, direction, index) has had more than one Image
\* created for it, and a player_joined whose avatar name already has a sprite
\* set, loading or loaded, creates none.
C12_EachImageLoadedOnce ==
    [][/\ \A t \in DOMAIN started' : started'[t] <= 1
       /\ (Handles("player_joined") /\ message'.avatar.name \in DOMAIN avatarImages)
            => started' = started /\ loading' = loading]_vars

\* C12 witness: a player_joined for avatar a1 has been handled after an image
\* of a1 had finished loading, and every slot of a1 has one Image.
C12_Witness ==
    /\ Handled("player_joined")
    /\ message.avatar.name = "a1"
    /\ "a1" \in DOMAIN avatarImages
    /\ 0 \in DOMAIN avatarImages["a1"]["north"]
    /\ loading # {}
    /\ \A d \in DOMAIN NoImages : started[<<"a1", d, 0>>] = 1

\* C13 (as claimed): once the local player id is set, no callback changes it.
C13_LocalIdNeverReassigned ==
    [][myPlayerId # Null => myPlayerId' = myPlayerId]_vars

\* C14 (as claimed): every 'connected' the client reports comes after a
\* 'connecting', and after a 'disconnected' there is no 'connected' without a
\* 'connecting' between them.
C14_ConnectingBeforeConnected ==
    \A i \in DOMAIN statusLog :
        statusLog[i] = "connected" =>
            /\ \E j \in 1..(i - 1) : statusLog[j] = "connecting"
            /\ \A k \in 1..(i - 1) :
                  statusLog[k] = "disconnected" =>
                      \E j \in (k + 1)..(i - 1) : statusLog[j] = "connecting"

\* C14 (amended): the client reports 'connected' and 'disconnected' only:
\* 'connected' at most once, as its first report, and after a 'disconnected'
\* nothing but 'disconnected'.
C14_ConnectedThenDisconnected ==
    \A i \in DOMAIN statusLog :
        /\ statusLog[i] \in {"connected", "disconnected"}
        /\ statusLog[i] = "connected" => i = 1

\* C14 witness: the socket opened, failed and closed.
C14_Witness ==
    statusLog = <<"connected", "disconnected", "disconnected">>

KeyEvents == {"keydown", "keyup"}

ArrowOrder == <<"ArrowUp", "ArrowDown", "ArrowLeft", "ArrowRight">>
ArrowNames == <<"up", "down", "left", "right">>

\* the intent the claim gives for the held keys: the first held arrow in the
\* order up, down, left, right, and a stop when none is held
Intent(keys) ==
    LET held == {i \in DOMAIN ArrowOrder : ArrowOrder[i] \in keys}
    IN  IF held = {} THEN [action |-> "stop"]
        ELSE [action |-> "move",
              direction |-> ArrowNames[CHOOSE i \in held : \A j \in held : i <= j]]

\* C15 (as claimed): every keydown and keyup sends exactly one message, the
\* intent of the keys then held.
C15_OneIntentPerTransition ==
    [][event' \in KeyEvents => sent' = Append(sent, Intent(keysPressed'))]_vars

\* C15 (amended): every keydown and keyup while the socket is open sends
\* exactly one message, the intent of the keys then held (up > down > left >
\* right, a stop when no arrow is held); while the socket is not open it
\* sends nothing.
C15_OneIntentWhileOpen ==
    [][event' \in KeyEvents =>
        IF socket.readyState = "OPEN"
        THEN sent' = Append(sent, Intent(keysPressed'))
        ELSE sent' = sent]_vars

\* C15 witness: with ArrowLeft and ArrowRight held on an open socket, the
\* last keydown sent a move to the left.
C15_Witness ==
    /\ event = "keydown"
    /\ socket.readyState = "OPEN"
    /\ keysPressed = {"ArrowLeft", "ArrowRight"}
    /\ sent[Len(sent)] = [action |-> "move", direction |-> "left"]

\* the slot of this.avatarImages a player is drawn from
SlotDirection(player) == IF player.facing = "west" THEN "east" ELSE player.facing
SlotIndex(player) == IF Has(player, "animationFrame") THEN player.animationFrame ELSE 0

\* the player's avatar is registered, has a sprite set, and the image of the
\* player's direction and frame has finished loading
FrameReady(player) ==
    /\ Has(player, "avatar") /\ Has(player, "facing")
    /\ player.avatar \in DOMAIN avatars
    /\ player.avatar \in DOMAIN avatarImages
    /\ SlotDirection(player) \in DOMAIN avatarImages[player.avatar]
    /\ SlotIndex(player) \in DOMAIN avatarImages[player.avatar][SlotDirection(player)]

Drawn(id) == \E d \in painted : d.player = id

\* C16: a player on the canvas is a stored player whose avatar is registered
\* and has a sprite set in which the image of the player's direction (east
\* for west) and frame has finished loading; that image is the one drawn.
C16_DrawnOnlyWhenReady ==
    \A d \in painted :
        /\ d.player \in DOMAIN players
        /\ FrameReady(players[d.player])
        /\ d.img \notin loading
        /\ d.img = avatarImages[players[d.player].avatar]
                               [SlotDirection(players[d.player])]
                               [SlotIndex(players[d.player])]

\* C16 witness: some images are loaded and others still loading; one player
\* is on the canvas and another, whose frame is not ready, is not.
C16_Witness ==
    /\ loading # {}
    /\ \E id \in DOMAIN players : Drawn(id)
    /\ \E id \in DOMAIN players : ~Drawn(id) /\ ~FrameReady(players[id])

\* C17: a player facing west is drawn mirrored with the image stored for east
\* at the player's frame index; a player facing north, south or east is drawn
\* unmirrored with the image of its own direction.
C17_WestMirrorsEast ==
    \A d \in painted :
        LET player == players[d.player]
            frames == avatarImages[player.avatar]
        IN  IF player.facing = "west"
            THEN d.flipHorizontal /\ d.img = frames["east"][SlotIndex(player)]
            ELSE ~d.flipHorizontal /\ d.img = frames[player.facing][SlotIndex(player)]

\* C17 witness: a player facing west and a player facing east are on the
\* canvas with the same image, the first mirrored and the second not.
C17_Witness ==
    \E d, e \in painted :
        /\ players[d.player].facing = "west"
        /\ players[e.player].facing = "east"
        /\ d.img = e.img
        /\ d.flipHorizontal
        /\ ~e.flipHorizontal

\* the player's screen position, when it has one
OnScreen(player) ==
    /\ Has(player, "x") /\ Has(player, "y")
    /\ ~cameraX.nan /\ ~cameraY.nan

ScreenX(player) == player.x - cameraX.v
ScreenY(player) == player.y - cameraY.v

\* C18: a player more than avatarSize outside an edge of the canvas is not
\* drawn; a player within the canvas, on an edge of it or up to exactly
\* avatarSize outside it is drawn when its frame is ready.
C18_CullingMargin ==
    \A id \in DOMAIN players :
        LET player == players[id]
        IN  OnScreen(player) =>
              IF \/ ScreenX(player) < -avatarSize
                 \/ ScreenX(player) > canvas.width + avatarSize
                 \/ ScreenY(player) < -avatarSize
                 \/ ScreenY(player) > canvas.height + avatarSize
              THEN ~Drawn(id)
              ELSE FrameReady(player) => Drawn(id)

\* C18 witness: a player exactly avatarSize right of the canvas is drawn.
C18_Witness ==
    \E id \in DOMAIN players :
        /\ OnScreen(players[id])
        /\ ScreenX(players[id]) = canvas.width + avatarSize
        /\ Drawn(id)

\* every player in view whose frame is the image that has just loaded is on
\* the canvas with that image
NewFramePainted ==
    \A id \in DOMAIN players :
        ( /\ OnScreen(players[id])
          /\ ScreenX(players[id]) \in (-avatarSize)..(canvas.width + avatarSize)
          /\ ScreenY(players[id]) \in (-avatarSize)..(canvas.height + avatarSize)
          /\ FrameReady(players[id])
          /\ SlotOf(image) = <<players[id].avatar, SlotDirection(players[id]),
                               SlotIndex(players[id])>> )
        => \E p \in painted : p.player = id /\ p.img = image

\* C19: the onload of an Image stores it at its own (avatar, direction,
\* index), leaves every other stored image where it was, and calls draw() in
\* the same callback, so that every player in view whose frame it is, is on
\* the canvas after it.
C19_LoadedFrameStoredAndPainted ==
    [][event' = "onload" =>
        /\ avatarImages'[image'.key][image'.direction][image'.index] = image'
        /\ \A k \in DOMAIN avatarImages : \A d \in DOMAIN avatarImages[k] :
              \A i \in DOMAIN avatarImages[k][d] :
                  /\ i \in DOMAIN avatarImages'[k][d]
                  /\ avatarImages'[k][d][i] = avatarImages[k][d][i]
        /\ renders' = 1
        /\ NewFramePainted']_vars

\* C19 witness: the last callback was the onload of an image of a1, images of
\* two directions of a1 are stored, and a player is drawn with the new one.
C19_Witness ==
    /\ event = "onload"
    /\ \E d \in DOMAIN NoImages \ {image.direction} :
          0 \in DOMAIN avatarImages[image.key][d]
    /\ \E p \in painted : p.img = image

\* C20: a message is sent only by a callback that leaves the socket open; the
\* first message sent is the join_game request; a keydown or keyup while the
\* socket is not open sends nothing; a closed socket stays closed.
C20_SendsOnlyWhileOpen ==
    [][/\ sent' # sent => socket'.readyState = "OPEN"
       /\ sent' # << >> => sent'[1] = JoinMessage
       /\ (event' \in KeyEvents /\ socket.readyState # "OPEN") => sent' = sent
       /\ socket.readyState = "CLOSED" => socket'.readyState = "CLOSED"]_vars

\* C20 witness: a key went down after the socket had closed, and the
\* join_game request is all that was ever sent.
C20_Witness ==
    /\ event = "keydown"
    /\ socket.readyState = "CLOSED"
    /\ keysPressed # {}
    /\ sent = <<JoinMessage>>

====
